---- MODULE Spec2Model ----
(***************************************************************************)
(* A model of the tqbot update pipeline: the middleware stack of           *)
(* setupMiddleware (error boundary, user validation, rate limiter,         *)
(* session, command validation), the command / callback / message          *)
(* handlers, and the error handler.                                        *)
(*                                                                         *)
(* One action is one synchronous segment of a middleware or handler, up to *)
(* and including the outcome of the Telegram / backend call it awaits.     *)
(***************************************************************************)
EXTENDS Integers, Sequences, FiniteSets, TLC

\* ------------------------------------------------------------------ bounds

\* The clock runs from the module load time up to MaxTime.
MaxTime == 4

\* The largest configured RATE_LIMIT_MAX_REQUESTS the model tries.
MaxRequestsBound == 2

\* Updates the runner handles at once.
MaxInFlight == 2

\* botConfig.rateLimit.window, scaled down to clock ticks.
WindowDuration == 2

\* The longest error message the model tries, in chunks.
MaxMessageLen == 2

\* The largest count the runs with an unparsable limit go up to.
MaxCount == 3

\* ----------------------------------------------------------- configuration

\* adminConfig.adminIds (ADMIN_IDS)
adminIds == {"admin"}

\* BANNED_USERS
bannedUsers == {"banned"}

\* The senders the model tries; NoUser is an update without ctx.from.
Users == {"alice", "admin", "banned"}

NoUser == "none"

\* Chats: a private chat has the id of its user; "group" is a group chat.
Chats == Users \cup {"group"}

Slots == 1..MaxInFlight

\* startBot, whose position is the state of the process, and the two signals
\* it installs a shutdown listener for.
\* (Process ids are numbers, like the slots.)
Main == MaxInFlight + 1

SIGINT == MaxInFlight + 2

SIGTERM == MaxInFlight + 3

Signals == {SIGINT, SIGTERM}

\* startBot's two branches: the runner polls for updates, or (with a webhook
\* configured in production) nothing is started.
Modes == {"polling", "webhook"}

\* ------------------------------------------------------------------- text

\* A text is a sequence of chunks. "/" and " " are single characters, "@bot"
\* is the '@' suffix naming this bot, every other chunk is a word without
\* spaces.
Slash == "/"

Space == " "

AtBot == "@bot"

startsWithSlash(text) == Len(text) > 0 /\ text[1] = Slash

\* text.split(' ')[0]: the chunks before the first space.
RECURSIVE splitFirst(_)
splitFirst(text) ==
  IF text = <<>> \/ Head(text) = Space THEN <<>>
  ELSE <<Head(text)>> \o splitFirst(Tail(text))

\* s.substring(1), for a string whose first character is one chunk.
substring1(text) == IF text = <<>> THEN <<>> ELSE Tail(text)

\* trim(): spaces removed at both ends.
RECURSIVE trimLeft(_)
trimLeft(text) ==
  IF text # <<>> /\ Head(text) = Space THEN trimLeft(Tail(text)) ELSE text

RECURSIVE trimRight(_)
trimRight(text) ==
  IF text # <<>> /\ text[Len(text)] = Space
  THEN trimRight(SubSeq(text, 1, Len(text) - 1))
  ELSE text

trim(text) == trimRight(trimLeft(text))

\* ----------------------------------------------------------------- updates

MsgText == "message:text"

CallbackQuery == "callback_query:data"

MediaKinds == {"message:photo", "message:document", "message:sticker", "message:voice"}

\* An update no bot.on / bot.command filter matches (a location message).
OtherKind == "message:location"

NoUpdate == [kind |-> "none", from |-> NoUser, chat |-> NoUser, text |-> <<>>, data |-> <<>>]

Update(kind, from, chat, text, data) ==
  [kind |-> kind, from |-> from, chat |-> chat, text |-> text, data |-> data]

\* ------------------------------------------------------------ rate limiter

\* parseInt of a RATE_LIMIT_MAX_REQUESTS that does not start with a number.
\* (NaN stands in the place of a negative limit; negative limits act like 0
\* and are not tried.)
NaN == 0 - 1

\* a >= b in JavaScript: false when b is NaN.
atLeast(a, b) == b # NaN /\ a >= b

\* What parseInt(process.env.RATE_LIMIT_MAX_REQUESTS || '20') can give.
ParsedLimits == {NaN} \cup (0..MaxRequestsBound)

\* The rate limiting middleware's read-modify-write of rateLimitStore:
\* the store after it, and whether the update goes on.
RateLimitOffByOne(store, userId, t, maxReq) ==
  IF userId \notin DOMAIN store \/ t > store[userId].resetTime
  THEN [store |-> [k \in DOMAIN store \cup {userId} |->
                     IF k = userId
                     THEN [count |-> 1, resetTime |-> t + WindowDuration]
                     ELSE store[k]],
        allow |-> TRUE]
  ELSE IF store[userId].count > maxReq
  THEN [store |-> store, allow |-> FALSE]
  ELSE [store |-> [store EXCEPT ![userId].count = @ + 1], allow |-> TRUE]

\* A lost increment: the count written back is the one that was read before
\* another update of the user wrote its own.
RateLimitStale(store, userId, t, maxReq) ==
  IF userId \notin DOMAIN store \/ t > store[userId].resetTime
  THEN [store |-> [k \in DOMAIN store \cup {userId} |->
                     IF k = userId
                     THEN [count |-> 1, resetTime |-> t + WindowDuration]
                     ELSE store[k]],
        allow |-> TRUE]
  ELSE IF store[userId].count >= maxReq
  THEN [store |-> store, allow |-> FALSE]
  ELSE [store |-> store, allow |-> TRUE]

\* A sliding window: every admitted update moves the window end.
RateLimitSliding(store, userId, t, maxReq) ==
  IF userId \notin DOMAIN store \/ t > store[userId].resetTime
  THEN [store |-> [k \in DOMAIN store \cup {userId} |->
                     IF k = userId
                     THEN [count |-> 1, resetTime |-> t + WindowDuration]
                     ELSE store[k]],
        allow |-> TRUE]
  ELSE IF store[userId].count >= maxReq
  THEN [store |-> store, allow |-> FALSE]
  ELSE [store |-> [store EXCEPT ![userId] =
                     [count |-> @.count + 1, resetTime |-> t + WindowDuration]],
        allow |-> TRUE]

RateLimitCountsDenied(store, userId, t, maxReq) ==
  IF userId \notin DOMAIN store \/ t > store[userId].resetTime
  THEN [store |-> [k \in DOMAIN store \cup {userId} |->
                     IF k = userId
                     THEN [count |-> 1, resetTime |-> t + WindowDuration]
                     ELSE store[k]],
        allow |-> TRUE]
  ELSE [store |-> [store EXCEPT ![userId].count = @ + 1],
        allow |-> store[userId].count < maxReq]

RateLimit(store, userId, t, maxReq) ==
  IF userId \notin DOMAIN store \/ t > store[userId].resetTime
  THEN [store |-> [k \in DOMAIN store \cup {userId} |->
                     IF k = userId
                     THEN [count |-> 1, resetTime |-> t + WindowDuration]
                     ELSE store[k]],
        allow |-> TRUE]
  ELSE IF atLeast(store[userId].count, maxReq)
  THEN [store |-> store, allow |-> FALSE]
  ELSE [store |-> [store EXCEPT ![userId].count = @ + 1], allow |-> TRUE]

\* ctx.from?.id?.toString() || 'unknown'
rateLimitKey(u) == IF u.from = NoUser THEN "unknown" ELSE u.from

\* ---------------------------------------------------------------- sessions

\* bot.config.ts: environment defaults to development.
environment == "development"

\* Session objects live on a heap: MemorySessionStorage keeps references and
\* ctx.session is a reference, so two contexts can hold the same object.
NumObjs == Cardinality(Chats) + MaxInFlight

ObjIds == 1..NumObjs

\* Defaults that start a session waiting for input.
defaultSessionDataWaiting(t0) ==
  [userState |-> "waiting_input",
   languageCode |-> "en",
   lastActivity |-> t0,
   messageCount |-> 0,
   joinedAt |-> t0,
   userId |-> NoUser,
   notificationsEnabled |-> "unset"]

\* defaultSessionData: its two timestamps are evaluated once, when the
\* configuration module is loaded (at time t0).
defaultSessionData(t0) ==
  [userState |-> "idle",
   languageCode |-> "en",
   lastActivity |-> t0,
   messageCount |-> 0,
   joinedAt |-> t0,
   userId |-> NoUser,
   notificationsEnabled |-> "unset"]

\* initial: () => ({ ...defaultSessionData })
initial(t0, t) == defaultSessionData(t0)

\* getSessionKey of grammy's session(): the chat id.
getSessionKey(u) == u.chat

\* user.language_code of a sender.
languageOf(user) == IF user = "alice" THEN "ru" ELSE "en"

\* userValidationMiddleware, "Update user session with latest info".
touchSession(sess, user, t) ==
  [sess EXCEPT !.userId = user,
               !.languageCode = languageOf(user),
               !.lastActivity = t,
               !.messageCount = @ + 1]

\* ------------------------------------------------------------------ errors

\* An error value: whether it has a message, and the message as chunks.
Err(msg) == [hasMessage |-> TRUE, message |-> msg]

\* What a failed Telegram call throws in the model.
ApiErrors == {Err(<<"network">>), Err(<<"x">>)}

NoError == [hasMessage |-> FALSE, message |-> <<>>]

\* error.message?.includes(k)
includes(err, k) == err.hasMessage /\ \E i \in 1..Len(err.message) : err.message[i] = k

\* The keyword tests in another order: 'network' before 'banned'.
errorTypeNetworkFirst(err) ==
  IF includes(err, "rate limit") THEN "RATE_LIMIT_EXCEEDED"
  ELSE IF includes(err, "network") THEN "NETWORK_ERROR"
  ELSE IF includes(err, "banned") THEN "USER_BANNED"
  ELSE IF includes(err, "configuration") THEN "CONFIGURATION_ERROR"
  ELSE "UNKNOWN_ERROR"

\* handleError, "Determine error type".
errorType(err) ==
  IF includes(err, "rate limit") THEN "RATE_LIMIT_EXCEEDED"
  ELSE IF includes(err, "banned") THEN "USER_BANNED"
  ELSE IF includes(err, "network") THEN "NETWORK_ERROR"
  ELSE IF includes(err, "configuration") THEN "CONFIGURATION_ERROR"
  ELSE "UNKNOWN_ERROR"

userMessage(err) ==
  IF includes(err, "rate limit") THEN "Too many requests"
  ELSE IF includes(err, "banned") THEN "You are banned"
  ELSE IF includes(err, "network") THEN "Network error"
  ELSE IF includes(err, "configuration") THEN "Bot configuration error"
  ELSE "An error occurred"

\* ----------------------------------------------------------------- replies

\* One outgoing call: its text, its keyboard and whether Telegram took it.
Reply(text, keyboard, ok) == [text |-> text, keyboard |-> keyboard, ok |-> ok]

BannedNotice == "You are banned"

ThrottleNotice == "Too many requests"

UnknownCommand == "Unknown command"

PermissionDenied == "You don't have permission"

\* startCommand's reply to a /start without an argument.
InviterPrompt == "Please enter your inviter ID"

\* messages.welcome, sent with the "Open Mini App" button.
Welcome == "welcome"

\* req.data: the text the backend gave with a status other than 201.
BackendData == "backend message"

\* ------------------------------------------------------------------- state

VARIABLES
  now,            \* Date.now()
  loadTime,       \* when bot.config.ts was evaluated
  maxRequests,    \* botConfig.rateLimit.max
  rateLimitStore, \* userId -> [count, resetTime], for the ids it holds
  heap,           \* session objects
  storage,        \* MemorySessionStorage: key -> object, for the keys it holds
  upd,            \* the update each slot handles
  pc,             \* where each slot's update is in the pipeline; the state of the
                  \* process (Main) and of each signal's shutdown listener
  ctx,            \* each slot's context: ctx.session and the error in flight
  hist,           \* what has happened to each slot's update so far
  admits,         \* per user id: the updates admitted since its window end last changed
  joined          \* per session key: the joinedAt of the first session made for it

vars ==
  <<now, loadTime, maxRequests, rateLimitStore, heap, storage, upd, pc, ctx, hist,
    admits, joined>>

config == <<loadTime, maxRequests>>

NoCtx == [session |-> {}, error |-> NoError]

NoHist ==
  [stages |-> <<>>, replies |-> <<>>, limit |-> "none", handler |-> "none",
   created |-> FALSE, attachedAt |-> 0, notified |-> 0, posts |-> 0, posted |-> <<>>,
   events |-> <<>>, failed |-> <<>>, countBefore |-> 0]

\* ----------------------------------------------------------------- helpers

Range(f) == {f[k] : k \in DOMAIN f}

Has(seq, x) == \E i \in 1..Len(seq) : seq[i] = x

\* Map.set / storage.write
Put(f, k, v) == [x \in DOMAIN f \cup {k} |-> IF x = k THEN v ELSE f[x]]

\* The objects still referenced by the storage or by a context.
Collect(h, st, cx) ==
  [o \in {x \in DOMAIN h : x \in Range(st) \/ \E s \in Slots : x \in cx[s].session} |-> h[o]]

NewObj(h) == CHOOSE o \in ObjIds : o \notin DOMAIN h /\ \A x \in ObjIds : x < o => x \in DOMAIN h

\* The outcomes of one call to the Bot API: it is accepted, or it throws.
CallOutcomes ==
  {[ok |-> TRUE, error |-> NoError]} \cup {[ok |-> FALSE, error |-> e] : e \in ApiErrors}

\* The kinds of the failures an outcome throws: none, or handleError's kind
\* of its error.
Thrown(o) == IF o.ok THEN <<>> ELSE <<errorType(o.error)>>

Running(s) == pc[s] \notin {"idle", "done"}

\* The session stored under a key.
SessionAt(k) == heap[storage[k]]

\* ---------------------------------------------------------------- the start

\* The state once startBot has run in a mode, with the limit one of limits:
\* in polling mode the runner is started and the once-listeners of both
\* signals are installed; in webhook mode neither.
Start(mode, limits) ==
  /\ now = 1
  /\ loadTime = 1
  /\ maxRequests \in limits
  /\ rateLimitStore = <<>>
  /\ heap = <<>>
  /\ storage = <<>>
  /\ upd = [s \in Slots |-> NoUpdate]
  /\ pc = [k \in Slots \cup {Main} \cup Signals |->
             IF k = Main THEN mode
             ELSE IF k \in Signals THEN (IF mode = "polling" THEN "listening" ELSE "default")
             ELSE "idle"]
  /\ ctx = [s \in Slots |-> NoCtx]
  /\ hist = [s \in Slots |-> NoHist]
  /\ admits = <<>>
  /\ joined = <<>>

\* The development default, polling, with a limit of at least 1.
Init == Start("polling", 1..MaxRequestsBound)

\* Time passes while an update waits: before its first stage runs, and while
\* it awaits the backend. (Every Date.now() of the pipeline is read before the
\* update's first call to the Bot API.)
Tick ==
  /\ now < MaxTime
  /\ \E s \in Slots : pc[s] \in {"userValidation", "startPost"}
  /\ now' = now + 1
  /\ UNCHANGED <<config, rateLimitStore, heap, storage, upd, pc, ctx, hist, admits, joined>>

\* bot.handleUpdate: errorMiddleware opens its try block and calls next().
Receive(s, u) ==
  /\ ~Running(s)
  /\ upd' = [upd EXCEPT ![s] = u]
  /\ pc' = [pc EXCEPT ![s] = "userValidation"]
  /\ ctx' = [ctx EXCEPT ![s] = NoCtx]
  /\ hist' = [hist EXCEPT ![s] =
                [NoHist EXCEPT !.stages = <<"errorMiddleware">>,
                               !.countBefore = IF getSessionKey(u) \in DOMAIN storage
                                               THEN SessionAt(getSessionKey(u)).messageCount
                                               ELSE 0]]
  /\ UNCHANGED <<now, config, rateLimitStore, heap, storage, admits, joined>>

\* ------------------------------------------------------------- middleware

\* A validation that takes every update to have a sender.
hasUserAlways(u) == TRUE

\* userValidationMiddleware: const user = ctx.from; if (!user) ...
hasUser(u) == u.from # NoUser

\* bannedUsers.includes(user.id)
isBannedNobody(user) == FALSE

isBanned(user) == user \in bannedUsers

\* userValidationMiddleware
UserValidation(s) ==
  /\ pc[s] = "userValidation"
  /\ LET u == upd[s]
         h == [hist[s] EXCEPT !.stages = Append(@, "userValidation")]
     IN
     IF ~hasUser(u)
     THEN /\ pc' = [pc EXCEPT ![s] = "done"]
          /\ hist' = [hist EXCEPT ![s] = h]
          /\ UNCHANGED <<ctx, heap>>
     ELSE IF isBanned(u.from)
     THEN \E o \in CallOutcomes :
            /\ pc' = [pc EXCEPT ![s] = IF o.ok THEN "done" ELSE "handleError"]
            /\ ctx' = [ctx EXCEPT ![s].error = o.error]
            /\ hist' = [hist EXCEPT ![s] =
                          [h EXCEPT !.replies = Append(@, Reply(BannedNotice, "none", o.ok)),
                                    !.failed = @ \o Thrown(o)]]
            /\ UNCHANGED heap
     ELSE /\ pc' = [pc EXCEPT ![s] = "rateLimit"]
          /\ hist' = [hist EXCEPT ![s] = h]
          /\ heap' = [o \in DOMAIN heap |->
                        IF o \in ctx[s].session
                        THEN touchSession(heap[o], u.from, now)
                        ELSE heap[o]]
          /\ UNCHANGED ctx
  /\ UNCHANGED <<now, config, rateLimitStore, storage, upd, admits, joined>>

\* The rate limiting middleware of setupMiddleware.
RateLimitMiddleware(s) ==
  /\ pc[s] = "rateLimit"
  /\ LET r == RateLimit(rateLimitStore, rateLimitKey(upd[s]), now, maxRequests)
         h == [hist[s] EXCEPT !.stages = Append(@, "rateLimit"),
                              !.limit = IF r.allow THEN "allow" ELSE "deny"]
     IN
     /\ rateLimitStore' = r.store
     /\ admits' =
          LET k == rateLimitKey(upd[s])
              sameWindow == /\ k \in DOMAIN admits
                            /\ k \in DOMAIN rateLimitStore
                            /\ k \in DOMAIN r.store
                            /\ r.store[k].resetTime = rateLimitStore[k].resetTime
          IN IF r.allow THEN Put(admits, k, IF sameWindow THEN admits[k] + 1 ELSE 1)
             ELSE admits
     /\ IF r.allow
        THEN /\ pc' = [pc EXCEPT ![s] = "session"]
             /\ hist' = [hist EXCEPT ![s] = h]
             /\ UNCHANGED ctx
        ELSE \E o \in CallOutcomes :
               /\ pc' = [pc EXCEPT ![s] = IF o.ok THEN "done" ELSE "handleError"]
               /\ ctx' = [ctx EXCEPT ![s].error = o.error]
               /\ hist' = [hist EXCEPT ![s] =
                             [h EXCEPT !.replies = Append(@, Reply(ThrottleNotice, "none", o.ok)),
                                       !.failed = @ \o Thrown(o)]]
  /\ UNCHANGED <<now, config, heap, storage, upd, joined>>

\* session(): read the stored session of the key, or make the initial one,
\* and attach it as ctx.session. (conversations() passes the update on.)
SessionMiddleware(s) ==
  /\ pc[s] = "session"
  /\ LET key == getSessionKey(upd[s])
         fresh == key \notin DOMAIN storage
         obj == IF fresh THEN NewObj(heap) ELSE storage[key]
     IN
     /\ heap' = IF fresh THEN Put(heap, obj, initial(loadTime, now)) ELSE heap
     /\ ctx' = [ctx EXCEPT ![s].session = {obj}]
     /\ joined' = IF key \in DOMAIN joined THEN joined
                  ELSE Put(joined, key, heap'[obj].joinedAt)
     /\ hist' = [hist EXCEPT ![s] = [@ EXCEPT !.stages = Append(@, "session"),
                                              !.created = fresh,
                                              !.attachedAt = now]]
  /\ pc' = [pc EXCEPT ![s] = "commandValidation"]
  /\ UNCHANGED <<now, config, rateLimitStore, storage, upd, admits>>

\* The command commandValidationMiddleware reads from a text.
commandOf(text) == substring1(splitFirst(text))

\* An allow-list that also names the admin commands.
validCommandsWithAdmin ==
  {<<"start">>, <<"help">>, <<"settings">>, <<"about">>, <<"cancel">>,
   <<"stats">>, <<"broadcast">>, <<"logs">>, <<"debug">>}

validCommands == {<<"start">>, <<"help">>, <<"settings">>, <<"about">>, <<"cancel">>}

\* commandValidationMiddleware
CommandValidation(s) ==
  /\ pc[s] = "commandValidation"
  /\ LET u == upd[s]
         h == [hist[s] EXCEPT !.stages = Append(@, "commandValidation")]
     IN
     IF u.kind = MsgText /\ startsWithSlash(u.text) /\ commandOf(u.text) \notin validCommands
     THEN \E o \in CallOutcomes :
            /\ pc' = [pc EXCEPT ![s] = IF o.ok THEN "sessionFinish" ELSE "handleError"]
            /\ ctx' = [ctx EXCEPT ![s] = [session |-> IF o.ok THEN @.session ELSE {},
                                          error |-> o.error]]
            /\ hist' = [hist EXCEPT ![s] =
                          [h EXCEPT !.replies = Append(@, Reply(UnknownCommand, "help", o.ok)),
                                    !.failed = @ \o Thrown(o)]]
            /\ heap' = Collect(heap, storage, ctx')
     ELSE /\ pc' = [pc EXCEPT ![s] = "dispatch"]
          /\ hist' = [hist EXCEPT ![s] = h]
          /\ UNCHANGED <<ctx, heap>>
  /\ UNCHANGED <<now, config, rateLimitStore, storage, upd, admits, joined>>

\* session(), after next() has returned: write ctx.session back.
SessionFinish(s) ==
  /\ pc[s] = "sessionFinish"
  /\ storage' = Put(storage, getSessionKey(upd[s]), CHOOSE o \in ctx[s].session : TRUE)
  /\ ctx' = [ctx EXCEPT ![s] = NoCtx]
  /\ heap' = Collect(heap, storage', ctx')
  /\ hist' = [hist EXCEPT ![s].stages = Append(@, "sessionFinish")]
  /\ pc' = [pc EXCEPT ![s] = "done"]
  /\ UNCHANGED <<now, config, rateLimitStore, upd, admits, joined>>

\* handleError's try / catch around its ctx.reply: where the update is after
\* the reply, delivered or not ("crashed": the failure left errorMiddleware).
afterErrorReplyRethrown(ok) == IF ok THEN "done" ELSE "crashed"

afterErrorReply(ok) == "done"

\* errorMiddleware's catch block: handleError, then notifyAdmins.
HandleError(s) ==
  /\ pc[s] = "handleError"
  /\ \E ok \in BOOLEAN :
       /\ hist' = [hist EXCEPT ![s] =
                     [@ EXCEPT !.stages = Append(@, "handleError"),
                               !.replies = Append(@, Reply(userMessage(ctx[s].error), "retry/support", ok)),
                               !.notified = IF /\ afterErrorReply(ok) = "done"
                                               /\ errorType(ctx[s].error) \in {"CONFIGURATION_ERROR", "UNKNOWN_ERROR"}
                                            THEN @ + 1 ELSE @]]
       /\ pc' = [pc EXCEPT ![s] = afterErrorReply(ok)]
  /\ ctx' = [ctx EXCEPT ![s] = NoCtx]
  /\ UNCHANGED <<now, config, rateLimitStore, heap, storage, upd, admits, joined>>

\* ---------------------------------------------------------------- dispatch

\* bot.command(name, ...): the text opens with the bot_command entity
\* "/name" or "/name@bot".
commandMatches(text, name) ==
  /\ Len(text) >= 2
  /\ text[1] = Slash
  /\ text[2] = name
  /\ \/ Len(text) = 2
     \/ text[3] = Space
     \/ text[3] = AtBot /\ (Len(text) = 3 \/ text[4] = Space)

AdminHandlers == {"statsCommand", "broadcastCommand", "logsCommand", "debug"}

\* Registration order reversed: setupMessageHandlers before setupCommands, so
\* that every text message is taken by the text handler.
RouteTextFirst(u) ==
  IF u.kind = MsgText THEN "message:text"
  ELSE IF u.kind = CallbackQuery THEN "callbackQueryHandler"
  ELSE IF u.kind \in MediaKinds THEN u.kind
  ELSE "none"

\* The first handler registered by setupCommands, setupCallbackHandlers and
\* setupMessageHandlers whose filter matches the update.
Route(u) ==
  IF u.kind = MsgText /\ commandMatches(u.text, "start") THEN "startCommand"
  ELSE IF u.kind = MsgText /\ commandMatches(u.text, "help") THEN "helpCommand"
  ELSE IF u.kind = MsgText /\ commandMatches(u.text, "settings") THEN "settingsCommand"
  ELSE IF u.kind = MsgText /\ commandMatches(u.text, "about") THEN "aboutCommand"
  ELSE IF u.kind = MsgText /\ commandMatches(u.text, "cancel") THEN "cancelCommand"
  ELSE IF u.kind = MsgText /\ commandMatches(u.text, "stats") THEN "statsCommand"
  ELSE IF u.kind = MsgText /\ commandMatches(u.text, "broadcast") THEN "broadcastCommand"
  ELSE IF u.kind = MsgText /\ commandMatches(u.text, "logs") THEN "logsCommand"
  ELSE IF u.kind = MsgText /\ commandMatches(u.text, "debug") /\ environment = "development"
  THEN "debug"
  ELSE IF u.kind = CallbackQuery THEN "callbackQueryHandler"
  ELSE IF u.kind = MsgText THEN "message:text"
  ELSE IF u.kind \in MediaKinds THEN u.kind
  ELSE "none"

\* adminMiddleware: whether the update goes on to the handler.
adminMiddleware(from) == from # NoUser /\ from \in adminIds

\* text.slice(6): the text after the six characters of "/start".
slice6(text) == SubSeq(text, 3, Len(text))

\* startCommand: const inviterId = ctx.message?.text?.slice(6).trim()
inviterIdOf(text) == trim(slice6(text))

\* text.replace('/broadcast', ''), for a text that opens with "/broadcast".
withoutCommand(text) == SubSeq(text, 3, Len(text))

\* The values of SessionData.userState.
UserStates == {"idle", "waiting_input", "in_conversation"}

\* A cancel that leaves the state as it is.
resetUserStateKept(sess) == sess

\* cancelCommand and the cancel branch of handleActionCallback, "Reset user
\* state": ctx.session.userState = 'idle'.
resetUserState(sess) == [sess EXCEPT !.userState = "idle"]

\* startCommand, "Initialize session if not exists".
startSessionReset(sess, t) == [sess EXCEPT !.joinedAt = t, !.messageCount = 0]

startSession(sess, t) ==
  IF sess.joinedAt = 0 THEN [sess EXCEPT !.joinedAt = t, !.messageCount = 0] ELSE sess

\* What a handler does up to its first call to the Bot API: the session after
\* it, and the call (none: <<>>).
Handle(name, sess, u, t) ==
  CASE name = "startCommand" ->
         [sess |-> startSession(sess, t),
          calls |-> IF inviterIdOf(u.text) = <<>>
                    THEN <<[text |-> InviterPrompt, keyboard |-> "none"]>>
                    ELSE <<>>]
    [] name = "helpCommand" ->
         [sess |-> sess, calls |-> <<[text |-> "help", keyboard |-> "mainMenu"]>>]
    [] name = "settingsCommand" ->
         [sess |-> sess, calls |-> <<[text |-> "settingsMenu", keyboard |-> "settings"]>>]
    [] name = "aboutCommand" ->
         [sess |-> sess, calls |-> <<[text |-> "about", keyboard |-> "backButton"]>>]
    [] name = "cancelCommand" ->
         [sess |-> resetUserState(sess),
          calls |-> <<[text |-> "cancelled", keyboard |-> "mainMenu"]>>]
    [] name = "statsCommand" ->
         [sess |-> sess, calls |-> <<[text |-> "Bot Statistics", keyboard |-> "none"]>>]
    [] name = "broadcastCommand" ->
         [sess |-> sess,
          calls |-> IF trim(withoutCommand(u.text)) = <<>>
                    THEN <<[text |-> "Please provide a message to broadcast", keyboard |-> "none"]>>
                    ELSE <<[text |-> "Broadcast Preview", keyboard |-> "confirm/cancel"]>>]
    [] name = "logsCommand" ->
         [sess |-> sess, calls |-> <<[text |-> "Recent Logs", keyboard |-> "none"]>>]
    [] name = "debug" ->
         [sess |-> sess, calls |-> <<[text |-> "Debug Info", keyboard |-> "none"]>>]
    [] name = "message:text" ->
         [sess |-> sess,
          calls |-> IF startsWithSlash(u.text) THEN <<>>
                    ELSE IF sess.userState = "waiting_input"
                    THEN <<[text |-> "Input received", keyboard |-> "none"]>>
                    ELSE <<[text |-> "I received your message", keyboard |-> "help/settings"]>>]
    [] name \in MediaKinds ->
         [sess |-> sess, calls |-> <<[text |-> name, keyboard |-> "none"]>>]
    [] OTHER -> [sess |-> sess, calls |-> <<>>]

\* The composer runs the matching handler: a command, text or media handler
\* (behind adminMiddleware for the admin commands), or none.
Dispatch(s) ==
  /\ pc[s] = "dispatch"
  /\ Route(upd[s]) # "callbackQueryHandler"
  /\ LET u == upd[s]
         name == Route(u)
         obj == CHOOSE o \in ctx[s].session : TRUE
         gated == name \in AdminHandlers
         open == ~gated \/ adminMiddleware(u.from)
         r == IF open THEN Handle(name, heap[obj], u, now)
              ELSE [sess |-> heap[obj],
                    calls |-> <<[text |-> PermissionDenied, keyboard |-> "none"]>>]
         h == [hist[s] EXCEPT
                 !.stages = @ \o (IF gated THEN <<"adminMiddleware">> ELSE <<>>)
                              \o (IF open /\ name # "none" THEN <<name>> ELSE <<>>),
                 !.handler = IF open THEN name ELSE "none"]
         awaitsPost == open /\ name = "startCommand" /\ r.calls = <<>>
     IN
     IF r.calls = <<>>
     THEN /\ pc' = [pc EXCEPT ![s] = IF awaitsPost THEN "startPost" ELSE "sessionFinish"]
          /\ hist' = [hist EXCEPT ![s] = h]
          /\ heap' = [heap EXCEPT ![obj] = r.sess]
          /\ UNCHANGED ctx
     ELSE \E o \in CallOutcomes :
            /\ pc' = [pc EXCEPT ![s] = IF o.ok THEN "sessionFinish" ELSE "handleError"]
            /\ ctx' = [ctx EXCEPT ![s] = [session |-> IF o.ok THEN @.session ELSE {},
                                          error |-> o.error]]
            /\ hist' = [hist EXCEPT ![s] =
                          [h EXCEPT !.replies =
                                      Append(@, Reply(r.calls[1].text, r.calls[1].keyboard, o.ok)),
                                    !.failed = @ \o Thrown(o)]]
            /\ heap' = Collect([heap EXCEPT ![obj] = r.sess], storage, ctx')
  /\ UNCHANGED <<now, config, rateLimitStore, storage, upd, admits, joined>>

\* What post() throws when axios rejects with an error that has no response.
PostTypeError == Err(<<"Cannot read properties of undefined">>)

\* What post() gives back: the backend created the user (201), it rejected
\* the request (its message as data), or post() itself threw.
PostOutcomes == {"created", "rejected", "thrown"}

\* startCommand after await post(...): the reply it branches to.
StartPost(s) ==
  /\ pc[s] = "startPost"
  /\ \E p \in PostOutcomes, o \in CallOutcomes :
       LET thrown == p = "thrown"
           ok == ~thrown /\ o.ok
           h == [hist[s] EXCEPT
                   !.posts = @ + 1,
                   !.posted = Append(@, [inviterId |-> inviterIdOf(upd[s].text),
                                         userId |-> upd[s].from,
                                         outcome |-> p])]
       IN
       /\ thrown => o.ok
       /\ pc' = [pc EXCEPT ![s] = IF ok THEN "sessionFinish" ELSE "handleError"]
       /\ ctx' = [ctx EXCEPT ![s] =
                    [session |-> IF ok THEN @.session ELSE {},
                     error |-> IF thrown THEN PostTypeError ELSE o.error]]
       /\ hist' = [hist EXCEPT ![s] =
                     IF thrown THEN [h EXCEPT !.failed = Append(@, errorType(PostTypeError))]
                     ELSE [h EXCEPT !.replies =
                                      Append(@, Reply(IF p = "created" THEN Welcome ELSE BackendData,
                                                      IF p = "created" THEN "miniApp" ELSE "none", o.ok)),
                                    !.failed = @ \o Thrown(o)]]
       /\ heap' = Collect(heap, storage, ctx')
  /\ UNCHANGED <<now, config, rateLimitStore, storage, upd, admits, joined>>

\* --------------------------------------------------------------- callbacks

\* A callback payload is the sequence of its parts, callbackData.split(':').
\* params[0] of a payload without a second part is undefined.
param0(data) == IF Len(data) >= 2 THEN data[2] ELSE "undefined"

UnknownAction == "Unknown action"

CallbackError == "An error occurred. Please try again."

BroadcastSent == "Broadcast Sent"

\* handleLanguageCallback's table of languages.
languages == {"en", "ru", "es", "fr"}

\* handleActionCallback: the session after it and its edit.
handleActionCallback(sess, action) ==
  CASE action \in {"main", "back"} ->
         [sess |-> sess, calls |-> <<[text |-> Welcome, keyboard |-> "mainMenu"]>>, events |-> <<>>]
    [] action = "help" ->
         [sess |-> sess, calls |-> <<[text |-> "help", keyboard |-> "mainMenu"]>>, events |-> <<>>]
    [] action = "about" ->
         [sess |-> sess, calls |-> <<[text |-> "about", keyboard |-> "backButton"]>>, events |-> <<>>]
    [] action = "settings" ->
         [sess |-> sess, calls |-> <<[text |-> "settingsMenu", keyboard |-> "settings"]>>, events |-> <<>>]
    [] action = "cancel" ->
         [sess |-> resetUserState(sess),
          calls |-> <<[text |-> "cancelled", keyboard |-> "mainMenu"]>>, events |-> <<>>]
    [] action = "retry" ->
         [sess |-> sess, calls |-> <<[text |-> "Please try your last action again", keyboard |-> "mainMenu"]>>,
          events |-> <<>>]
    [] action = "support" ->
         [sess |-> sess, calls |-> <<[text |-> "Support", keyboard |-> "backButton"]>>, events |-> <<>>]
    [] OTHER ->
         [sess |-> sess, calls |-> <<[text |-> UnknownAction, keyboard |-> "mainMenu"]>>, events |-> <<>>]

\* A handler that switches the notifications off whatever the flag was.
toggledOff(flag) == "false"

\* ctx.session?.notificationsEnabled ?? true, negated.
toggled(flag) == IF flag = "false" THEN "true" ELSE "false"

\* handleSettingsCallback
handleSettingsCallback(sess, setting) ==
  CASE setting = "language" ->
         [sess |-> sess, calls |-> <<[text |-> "Language Settings", keyboard |-> "language"]>>,
          events |-> <<>>]
    [] setting = "notifications" ->
         [sess |-> [sess EXCEPT !.notificationsEnabled = toggled(@)],
          calls |-> <<[text |-> "Notifications are now " \o
                                  (IF toggled(sess.notificationsEnabled) = "true"
                                   THEN "enabled" ELSE "disabled"),
                       keyboard |-> "settings"]>>,
          events |-> <<>>]
    [] OTHER ->
         [sess |-> sess, calls |-> <<[text |-> "Unknown setting", keyboard |-> "settings"]>>,
          events |-> <<>>]

\* Property names every object literal inherits from Object.prototype (two of
\* them).
ObjectPrototype == {"constructor", "toString"}

\* languages[language]: the name stored under an own key, the inherited
\* function for a name of Object.prototype, undefined for any other key.
languageName(language) ==
  IF language \in languages THEN language
  ELSE IF language \in ObjectPrototype THEN "function"
  ELSE "undefined"

\* handleLanguageCallback
handleLanguageCallback(sess, language) ==
  IF languageName(language) = "undefined"
  THEN [sess |-> sess, calls |-> <<[text |-> "Unknown language", keyboard |-> "language"]>>,
        events |-> <<>>]
  ELSE [sess |-> [sess EXCEPT !.languageCode = language],
        calls |-> <<[text |-> "Language changed to " \o languageName(language),
                   keyboard |-> "settings"]>>,
        events |-> <<"language_change">>]

\* handleBroadcastCallback: the "broadcast_sent" entry is logged once the edit
\* is through.
handleBroadcastCallback(sess, params) ==
  IF params # <<>> /\ params[1] = "confirm"
  THEN [sess |-> sess, calls |-> <<[text |-> BroadcastSent, keyboard |-> "none"]>>,
        events |-> <<"broadcast_sent">>]
  ELSE [sess |-> sess, calls |-> <<>>, events |-> <<>>]

\* The switch of callbackQueryHandler over the first part of the payload.
callbackSwitch(sess, data) ==
  CASE data[1] = "action" -> handleActionCallback(sess, param0(data))
    [] data[1] = "settings" -> handleSettingsCallback(sess, param0(data))
    [] data[1] = "lang" -> handleLanguageCallback(sess, param0(data))
    [] data[1] = "broadcast" -> handleBroadcastCallback(sess, Tail(data))
    [] OTHER ->
         [sess |-> sess, calls |-> <<[text |-> UnknownAction, keyboard |-> "mainMenu"]>>,
          events |-> <<>>]

\* callbackQueryHandler up to await ctx.answerCallbackQuery(): a failure of
\* that call is thrown out of the handler.
CallbackAnswer(s) ==
  /\ pc[s] = "dispatch"
  /\ Route(upd[s]) = "callbackQueryHandler"
  /\ \E o \in CallOutcomes :
       /\ pc' = [pc EXCEPT ![s] = IF o.ok THEN "callbackSwitch" ELSE "handleError"]
       /\ ctx' = [ctx EXCEPT ![s] = [session |-> IF o.ok THEN @.session ELSE {},
                                     error |-> o.error]]
       /\ hist' = [hist EXCEPT ![s] =
                     [@ EXCEPT !.stages = Append(@, "callbackQueryHandler"),
                               !.handler = "callbackQueryHandler",
                               !.events = Append(@, IF o.ok THEN "answered" ELSE "answer failed"),
                               !.failed = @ \o Thrown(o)]]
       /\ heap' = Collect(heap, storage, ctx')
  /\ UNCHANGED <<now, config, rateLimitStore, storage, upd, admits, joined>>

\* A switch without the try / catch around it: a failed edit leaves the
\* handler.
afterSwitchEditUncaught(ok) == IF ok THEN "sessionFinish" ELSE "handleError"

\* try { switch ... } catch: where the update is after the edit of a branch.
afterSwitchEdit(ok) == IF ok THEN "sessionFinish" ELSE "callbackCatch"

\* The try block of callbackQueryHandler: the branch of the switch, up to the
\* outcome of its edit. A failed edit goes to the handler's own catch.
CallbackSwitch(s) ==
  /\ pc[s] = "callbackSwitch"
  /\ LET obj == CHOOSE o \in ctx[s].session : TRUE
         r == callbackSwitch(heap[obj], upd[s].data)
     IN
     /\ heap' = [heap EXCEPT ![obj] = r.sess]
     /\ IF r.calls = <<>>
        THEN /\ pc' = [pc EXCEPT ![s] = "sessionFinish"]
             /\ hist' = [hist EXCEPT ![s].events = @ \o r.events]
             /\ UNCHANGED ctx
        ELSE \E o \in CallOutcomes :
               /\ pc' = [pc EXCEPT ![s] = afterSwitchEdit(o.ok)]
               /\ ctx' = [ctx EXCEPT ![s].error = o.error]
               /\ hist' = [hist EXCEPT ![s] =
                             [@ EXCEPT !.replies =
                                         Append(@, Reply(r.calls[1].text, r.calls[1].keyboard, o.ok)),
                                       !.events = IF o.ok \/ r.events = <<"language_change">>
                                                  THEN @ \o r.events ELSE @,
                                       !.failed = @ \o Thrown(o)]]
  /\ UNCHANGED <<now, config, rateLimitStore, storage, upd, admits, joined>>

\* The catch block of callbackQueryHandler: one edit with the generic error
\* text and the main menu; its failure is thrown out of the handler.
CallbackCatch(s) ==
  /\ pc[s] = "callbackCatch"
  /\ \E o \in CallOutcomes :
       /\ pc' = [pc EXCEPT ![s] = IF o.ok THEN "sessionFinish" ELSE "handleError"]
       /\ ctx' = [ctx EXCEPT ![s] = [session |-> IF o.ok THEN @.session ELSE {},
                                     error |-> o.error]]
       /\ hist' = [hist EXCEPT ![s] =
                     [@ EXCEPT !.stages = Append(@, "callbackCatch"),
                               !.replies = Append(@, Reply(CallbackError, "mainMenu", o.ok)),
                               !.events = Append(@, "caught locally"),
                               !.failed = @ \o Thrown(o)]]
       /\ heap' = Collect(heap, storage, ctx')
  /\ UNCHANGED <<now, config, rateLimitStore, storage, upd, admits, joined>>

\* ------------------------------------------------------------ specification

\* The texts of the incoming messages the model tries.
Texts ==
  {<<Slash, "start">>, <<Slash, "start", Space, "42">>,
   <<Slash, "help">>, <<Slash, "help", AtBot>>, <<Slash, "cancel">>,
   <<Slash, "stats">>, <<Slash, "broadcast", Space, "hi">>, <<Slash, "logs">>,
   <<Slash, "debug">>, <<Slash, "zzz">>, <<"hello">>}

\* The texts the admin and the banned user send.
AdminTexts ==
  {<<Slash, "help">>, <<Slash, "stats">>, <<Slash, "broadcast", Space, "hi">>,
   <<Slash, "logs">>, <<Slash, "debug">>}

BannedTexts == {<<Slash, "start">>, <<"hello">>}

\* The updates the model tries: text messages in the private chat of their
\* sender, a photo, a message no handler takes, and a message without a
\* sender.
Updates ==
  {Update(MsgText, "alice", "alice", text, <<>>) : text \in Texts}
    \cup {Update(MsgText, "admin", "admin", text, <<>>) : text \in AdminTexts}
    \cup {Update(MsgText, "banned", "banned", text, <<>>) : text \in BannedTexts}
    \cup {Update("message:photo", "alice", "alice", <<>>, <<>>),
          Update(OtherKind, "alice", "alice", <<>>, <<>>),
          Update(MsgText, NoUser, "group", <<"hello">>, <<>>)}

\* One update at a time: the next one is received when the last is done.
OneSlot == {1}

Next ==
  \/ Tick
  \/ \E s \in OneSlot, u \in Updates : Receive(s, u)
  \/ \E s \in OneSlot : UserValidation(s)
  \/ \E s \in OneSlot : RateLimitMiddleware(s)
  \/ \E s \in OneSlot : SessionMiddleware(s)
  \/ \E s \in OneSlot : CommandValidation(s)
  \/ \E s \in OneSlot : Dispatch(s)
  \/ \E s \in OneSlot : StartPost(s)
  \/ \E s \in OneSlot : SessionFinish(s)
  \/ \E s \in OneSlot : HandleError(s)

Spec == Init /\ [][Next]_vars

\* The callback payloads the model tries, as their parts.
Payloads ==
  {<<"action", "main">>, <<"action", "zzz">>, <<"action">>,
   <<"settings", "notifications">>, <<"settings", "zzz">>,
   <<"lang", "es">>, <<"lang", "zz">>,
   <<"broadcast", "confirm", "1700000000000">>, <<"broadcast", "zzz">>,
   <<"bogus", "verb">>}

\* Button presses of alice in her private chat.
CallbackUpdates == {Update(CallbackQuery, "alice", "alice", <<>>, data) : data \in Payloads}

\* The pipeline fed with callback queries, one at a time.
NextCallbacks ==
  \/ Tick
  \/ \E s \in OneSlot, u \in CallbackUpdates : Receive(s, u)
  \/ \E s \in OneSlot : UserValidation(s)
  \/ \E s \in OneSlot : RateLimitMiddleware(s)
  \/ \E s \in OneSlot : SessionMiddleware(s)
  \/ \E s \in OneSlot : CommandValidation(s)
  \/ \E s \in OneSlot : CallbackAnswer(s)
  \/ \E s \in OneSlot : CallbackSwitch(s)
  \/ \E s \in OneSlot : CallbackCatch(s)
  \/ \E s \in OneSlot : SessionFinish(s)
  \/ \E s \in OneSlot : HandleError(s)

SpecCallbacks == Init /\ [][NextCallbacks]_vars

\* The updates of the concurrent runs: alice's /start with an inviter id, and
\* her presses of a language and of the notifications button.
ConcurrentUpdates ==
  {Update(MsgText, "alice", "alice", <<Slash, "start", Space, "42">>, <<>>),
   Update(CallbackQuery, "alice", "alice", <<>>, <<"lang", "es">>),
   Update(CallbackQuery, "alice", "alice", <<>>, <<"settings", "notifications">>)}

\* run(bot): the runner hands an update to the middleware while others are
\* suspended at an await; a free slot is taken lowest first.
Fetch(s, u) ==
  /\ \A r \in Slots : r < s => Running(r)
  /\ Receive(s, u)

\* In the concurrent runs the Bot API takes every call of a middleware or a
\* handler (Spec and SpecCallbacks cover their failures); the backend call
\* of /start keeps all its outcomes, and the error reply may fail.
Accepted(s) ==
  /\ ~Has(hist'[s].events, "answer failed")
  /\ \A i \in 1..Len(hist'[s].replies) :
       hist'[s].replies[i].ok \/ hist'[s].replies[i].keyboard = "retry/support"

NextConcurrent ==
  \/ Tick
  \/ \E s \in Slots, u \in ConcurrentUpdates : Fetch(s, u)
  \/ \E s \in Slots : UserValidation(s)
  \/ \E s \in Slots : RateLimitMiddleware(s) /\ Accepted(s)
  \/ \E s \in Slots : SessionMiddleware(s)
  \/ \E s \in Slots : CommandValidation(s)
  \/ \E s \in Slots : Dispatch(s)
  \/ \E s \in Slots : StartPost(s) /\ Accepted(s)
  \/ \E s \in Slots : CallbackAnswer(s) /\ Accepted(s)
  \/ \E s \in Slots : CallbackSwitch(s) /\ Accepted(s)
  \/ \E s \in Slots : SessionFinish(s)
  \/ \E s \in Slots : HandleError(s)

SpecConcurrent == Init /\ [][NextConcurrent]_vars

\* Plain messages of one sender, handled at once: the updates that meet in
\* the rate limiter.
LimiterUpdates ==
  {Update(MsgText, "alice", "alice", <<"hello">>, <<>>)}

NextLimiter ==
  \/ Tick
  \/ \E s \in Slots, u \in LimiterUpdates : Fetch(s, u)
  \/ \E s \in Slots : UserValidation(s)
  \/ \E s \in Slots : RateLimitMiddleware(s) /\ Accepted(s)
  \/ \E s \in Slots : SessionMiddleware(s)
  \/ \E s \in Slots : CommandValidation(s)
  \/ \E s \in Slots : Dispatch(s) /\ Accepted(s)
  \/ \E s \in Slots : SessionFinish(s)

SpecLimiter == Init /\ [][NextLimiter]_vars

\* The updates of the cancel runs: alice's /cancel and her press of the
\* cancel button, and the two button presses that change her session.
CancelUpdates ==
  {Update(MsgText, "alice", "alice", <<Slash, "cancel">>, <<>>),
   Update(CallbackQuery, "alice", "alice", <<>>, <<"action", "cancel">>),
   Update(CallbackQuery, "alice", "alice", <<>>, <<"lang", "es">>),
   Update(CallbackQuery, "alice", "alice", <<>>, <<"settings", "notifications">>)}

\* The pipeline fed with them, one at a time.
NextCancel ==
  \/ Tick
  \/ \E s \in OneSlot, u \in CancelUpdates : Receive(s, u)
  \/ \E s \in OneSlot : UserValidation(s)
  \/ \E s \in OneSlot : RateLimitMiddleware(s)
  \/ \E s \in OneSlot : SessionMiddleware(s)
  \/ \E s \in OneSlot : CommandValidation(s)
  \/ \E s \in OneSlot : Dispatch(s)
  \/ \E s \in OneSlot : CallbackAnswer(s)
  \/ \E s \in OneSlot : CallbackSwitch(s)
  \/ \E s \in OneSlot : CallbackCatch(s)
  \/ \E s \in OneSlot : SessionFinish(s)
  \/ \E s \in OneSlot : HandleError(s)

SpecCancel == Init /\ [][NextCancel]_vars

\* runner.isRunning(): the runner fetches updates until stop() is called.
isRunning == pc[Main] = "polling"

\* The process has not exited.
Alive == pc[Main] # "exited"

\* The process gets a signal. Its once-listener, if still installed, is
\* removed and runs shutdown(signal): with the runner running it calls
\* runner.stop(), which ends the fetching, and awaits it; otherwise it calls
\* process.exit(0) at once. A signal without a listener ends the process (the
\* default action).
Signal(sig) ==
  /\ Alive
  /\ pc' = IF pc[sig] = "listening"
           THEN IF isRunning
                THEN [pc EXCEPT ![sig] = "awaitStop", ![Main] = "stopping"]
                ELSE [pc EXCEPT ![sig] = "removed", ![Main] = "exited"]
           ELSE [pc EXCEPT ![Main] = "exited"]
  /\ UNCHANGED <<now, config, rateLimitStore, heap, storage, upd, ctx, hist, admits, joined>>

\* await runner.stop() returns once no middleware is executing; shutdown
\* goes on to process.exit(0).
StopResolves(sig) ==
  /\ Alive
  /\ pc[sig] = "awaitStop"
  /\ \A s \in Slots : ~Running(s)
  /\ pc' = [pc EXCEPT ![sig] = "removed", ![Main] = "exited"]
  /\ UNCHANGED <<now, config, rateLimitStore, heap, storage, upd, ctx, hist, admits, joined>>

\* The process from startBot to its exit: plain messages handled at once
\* while the runner polls, and the shutdown signals.
NextShutdown ==
  \/ Alive /\ Tick
  \/ \E s \in Slots, u \in LimiterUpdates : isRunning /\ Fetch(s, u)
  \/ \E s \in Slots : Alive /\ UserValidation(s)
  \/ \E s \in Slots : Alive /\ RateLimitMiddleware(s) /\ Accepted(s)
  \/ \E s \in Slots : Alive /\ SessionMiddleware(s)
  \/ \E s \in Slots : Alive /\ CommandValidation(s)
  \/ \E s \in Slots : Alive /\ Dispatch(s) /\ Accepted(s)
  \/ \E s \in Slots : Alive /\ SessionFinish(s)
  \/ \E sig \in Signals : Signal(sig)
  \/ \E sig \in Signals : StopResolves(sig)

SpecShutdown ==
  (\E mode \in Modes : Start(mode, 1..MaxRequestsBound)) /\ [][NextShutdown]_vars

\* Two members of one group chat: alice presses a language button under a
\* message of the bot there, the admin writes a plain message there.
GroupUpdates ==
  {Update(CallbackQuery, "alice", "group", <<>>, <<"lang", "es">>),
   Update(MsgText, "admin", "group", <<"hello">>, <<>>)}

\* Their updates handled at once.
NextGroup ==
  \/ Tick
  \/ \E s \in Slots, u \in GroupUpdates : Fetch(s, u)
  \/ \E s \in Slots : UserValidation(s)
  \/ \E s \in Slots : RateLimitMiddleware(s) /\ Accepted(s)
  \/ \E s \in Slots : SessionMiddleware(s)
  \/ \E s \in Slots : CommandValidation(s)
  \/ \E s \in Slots : Dispatch(s) /\ Accepted(s)
  \/ \E s \in Slots : CallbackAnswer(s) /\ Accepted(s)
  \/ \E s \in Slots : CallbackSwitch(s) /\ Accepted(s)
  \/ \E s \in Slots : SessionFinish(s)

SpecGroup == Init /\ [][NextGroup]_vars

\* Plain messages of one sender under every limit the configuration can
\* give; a run stops feeding the limiter at a count of MaxCount.
NextConfig ==
  \/ Tick
  \/ \E s \in Slots, u \in LimiterUpdates : Fetch(s, u)
  \/ \E s \in Slots : UserValidation(s)
  \/ \E s \in Slots :
       /\ RateLimitMiddleware(s)
       /\ Accepted(s)
       /\ rateLimitStore'[rateLimitKey(upd[s])].count <= MaxCount
  \/ \E s \in Slots : SessionMiddleware(s)
  \/ \E s \in Slots : CommandValidation(s)
  \/ \E s \in Slots : Dispatch(s) /\ Accepted(s)
  \/ \E s \in Slots : SessionFinish(s)

SpecConfig == Start("polling", ParsedLimits) /\ [][NextConfig]_vars

\* A sender who issues only commands that are rejected: an unknown command
\* and an admin command.
RejectedUpdates ==
  {Update(MsgText, "alice", "alice", <<Slash, "zzz">>, <<>>),
   Update(MsgText, "alice", "alice", <<Slash, "stats">>, <<>>)}

\* The pipeline fed with them, one at a time; no update gets to a handler.
NextRejected ==
  \/ Tick
  \/ \E s \in OneSlot, u \in RejectedUpdates : Receive(s, u)
  \/ \E s \in OneSlot : UserValidation(s)
  \/ \E s \in OneSlot : RateLimitMiddleware(s)
  \/ \E s \in OneSlot : SessionMiddleware(s)
  \/ \E s \in OneSlot : CommandValidation(s)
  \/ \E s \in OneSlot : SessionFinish(s)
  \/ \E s \in OneSlot : HandleError(s)

SpecRejected == Init /\ [][NextRejected]_vars

\* The chunks of the error messages the model tries: handleError's four
\* keywords, a keyword in another case, and a word that is none of them.
MessageChunks == {"rate limit", "banned", "network", "configuration", "Network", "x"}

\* The values a handler throws: errors with a message of up to MaxMessageLen
\* chunks, and an error without a message.
ErrorValues ==
  {Err(msg) : msg \in UNION {[1..n -> MessageChunks] : n \in 0..MaxMessageLen}}
    \cup {NoError}

\* A handler throws e: next() rejects, the session is not written back, and
\* errorMiddleware's catch block takes the error.
Throw(s, e) ==
  /\ pc[s] = "dispatch"
  /\ pc' = [pc EXCEPT ![s] = "handleError"]
  /\ ctx' = [ctx EXCEPT ![s] = [session |-> {}, error |-> e]]
  /\ hist' = [hist EXCEPT ![s].failed = Append(@, errorType(e))]
  /\ heap' = Collect(heap, storage, ctx')
  /\ UNCHANGED <<now, config, rateLimitStore, storage, upd, admits, joined>>

\* The pipeline with a handler that throws: every error value reaches
\* handleError.
NextErrors ==
  \/ Tick
  \/ \E s \in OneSlot, u \in LimiterUpdates : Receive(s, u)
  \/ \E s \in OneSlot : UserValidation(s)
  \/ \E s \in OneSlot : RateLimitMiddleware(s) /\ Accepted(s)
  \/ \E s \in OneSlot : SessionMiddleware(s)
  \/ \E s \in OneSlot : CommandValidation(s)
  \/ \E s \in OneSlot, e \in ErrorValues : Throw(s, e)
  \/ \E s \in OneSlot : HandleError(s)

SpecErrors == Init /\ [][NextErrors]_vars

\* The codes a language press can carry: table keys, a code outside the
\* table, a name every object inherits, and no code at all.
LanguagePayloads ==
  {<<"lang", "es">>, <<"lang", "fr">>, <<"lang", "zz">>, <<"lang", "constructor">>, <<"lang">>}

\* Alice's language presses in her private chat, her press of the
\* notifications button and a plain message of hers.
LanguageUpdates ==
  {Update(CallbackQuery, "alice", "alice", <<>>, data) : data \in LanguagePayloads}
    \cup {Update(CallbackQuery, "alice", "alice", <<>>, <<"settings", "notifications">>),
          Update(MsgText, "alice", "alice", <<"hello">>, <<>>)}

\* The pipeline fed with them, one at a time.
NextLanguage ==
  \/ Tick
  \/ \E s \in OneSlot, u \in LanguageUpdates : Receive(s, u)
  \/ \E s \in OneSlot : UserValidation(s)
  \/ \E s \in OneSlot : RateLimitMiddleware(s)
  \/ \E s \in OneSlot : SessionMiddleware(s)
  \/ \E s \in OneSlot : CommandValidation(s)
  \/ \E s \in OneSlot : Dispatch(s)
  \/ \E s \in OneSlot : CallbackAnswer(s)
  \/ \E s \in OneSlot : CallbackSwitch(s)
  \/ \E s \in OneSlot : CallbackCatch(s)
  \/ \E s \in OneSlot : SessionFinish(s)
  \/ \E s \in OneSlot : HandleError(s)

SpecLanguage == Init /\ [][NextLanguage]_vars

\* ------------------------------------------------------------------ claims

\* A step taken for the update of slot s.
StepOf(s) == pc'[s] # pc[s] \/ hist'[s] # hist[s] \/ ctx'[s] # ctx[s]

\* The step of slot s in which the rate limiting middleware runs.
LimiterStep(s) == pc[s] = "rateLimit" /\ pc'[s] # "rateLimit"

\* The stages behind the rate limiter.
LaterStages ==
  {"session", "commandValidation", "adminMiddleware", "sessionFinish",
   "startCommand", "helpCommand", "settingsCommand", "aboutCommand", "cancelCommand",
   "statsCommand", "broadcastCommand", "logsCommand", "debug",
   "callbackQueryHandler", "message:text"} \cup MediaKinds

\* C1: with maxRequests >= 1, an update that reaches the rate limiter before
\* the end of its sender's window is admitted exactly when fewer than
\* maxRequests updates of the sender were admitted in that window (so the
\* first maxRequests are admitted and every further one is denied); the first
\* update of a sender, and an update after the window end, are admitted, and
\* the latter leaves the count at 1.
C1_AdmissionBound ==
  [][\A s \in Slots :
       (LimiterStep(s) /\ maxRequests >= 1) =>
         LET k == rateLimitKey(upd[s])
             known == k \in DOMAIN rateLimitStore
         IN /\ ~known => hist'[s].limit = "allow" /\ rateLimitStore'[k].count = 1
            /\ (known /\ now < rateLimitStore[k].resetTime) =>
                 hist'[s].limit = IF admits[k] < maxRequests THEN "allow" ELSE "deny"
            /\ (known /\ now > rateLimitStore[k].resetTime) =>
                 /\ hist'[s].limit = "allow"
                 /\ rateLimitStore'[k] = [count |-> 1, resetTime |-> now + WindowDuration]
    ]_vars

\* C1 witness: with maxRequests = 2, a third update of a sender inside the
\* window whose first two were admitted is denied.
C1_Witness ==
  \E s \in Slots :
    /\ maxRequests = 2
    /\ pc[s] = "done"
    /\ hist[s].limit = "deny"
    /\ admits[rateLimitKey(upd[s])] = 2
    /\ now < rateLimitStore[rateLimitKey(upd[s])].resetTime

\* C2 (as claimed): an update that reaches the rate limiter at now >= the
\* window end of its sender's record, the window end itself included, replaces
\* the record by {count: 1, resetTime: now + W} and is admitted; the count is
\* incremented only while now < the window end.
C2_RolloverAtWindowEnd ==
  [][\A s \in Slots :
       (LimiterStep(s) /\ rateLimitKey(upd[s]) \in DOMAIN rateLimitStore) =>
         LET k == rateLimitKey(upd[s])
             rec == rateLimitStore[k]
         IN /\ now >= rec.resetTime =>
                 /\ hist'[s].limit = "allow"
                 /\ rateLimitStore'[k] = [count |-> 1, resetTime |-> now + WindowDuration]
            /\ rateLimitStore'[k] = [rec EXCEPT !.count = @ + 1] => now < rec.resetTime
    ]_vars

\* C3: from the step that denies an update on, no step taken for that update
\* changes the rate-limit store or the sessions; its first reply is the
\* throttling notice; no stage behind the rate limiter and no handler runs
\* for it.
C3_DeniedShortCircuits ==
  [][\A s \in Slots :
       (StepOf(s) /\ hist'[s].limit = "deny") =>
         /\ rateLimitStore' = rateLimitStore
         /\ heap' = heap
         /\ storage' = storage
         /\ ctx'[s].session = {}
         /\ hist'[s].handler = "none"
         /\ \A i \in 1..Len(hist'[s].stages) : hist'[s].stages[i] \notin LaterStages
         /\ Len(hist'[s].replies) >= 1
         /\ hist'[s].replies[1].text = ThrottleNotice
         /\ hist'[s].replies[1].keyboard = "none"
    ]_vars

\* C3 witness: a denied update is done, its sender has a session from an
\* earlier update.
C3_Witness ==
  \E s \in Slots :
    /\ pc[s] = "done"
    /\ hist[s].limit = "deny"
    /\ hist[s].replies = <<Reply(ThrottleNotice, "none", TRUE)>>
    /\ getSessionKey(upd[s]) \in DOMAIN storage

\* C4 (as claimed): an update with a sender who is not banned, once handled,
\* has raised the messageCount of the sender's session by exactly 1 and set
\* its lastActivity to the time the update was processed.
C4_PerUpdateTouch ==
  \A s \in Slots :
    (pc[s] = "done" /\ Has(hist[s].stages, "sessionFinish")) =>
      /\ SessionAt(getSessionKey(upd[s])).messageCount = hist[s].countBefore + 1
      /\ SessionAt(getSessionKey(upd[s])).lastActivity = hist[s].attachedAt

\* A text that is the slash-command name, in the Bot API's reading: "/name",
\* with or without "@bot" and arguments.
IsCommand(u, name) ==
  u.kind = MsgText /\ Len(u.text) >= 2 /\ u.text[1] = Slash /\ u.text[2] = name

AllReplied(s) == \A i \in 1..Len(hist[s].replies) : hist[s].replies[i].ok

\* C5 (as claimed): a sender outside adminIds whose admin-gated command
\* reaches command validation never has the admin handler run, and the reply
\* is the permission-denied reply.
C5_AdminGate ==
  \A s \in Slots :
    (/\ pc[s] = "done"
     /\ \E name \in {"stats", "broadcast", "logs", "debug"} : IsCommand(upd[s], name)
     /\ upd[s].from \notin adminIds
     /\ Has(hist[s].stages, "commandValidation")
     /\ AllReplied(s)) =>
      /\ hist[s].handler \notin AdminHandlers
      /\ hist[s].replies = <<Reply(PermissionDenied, "none", TRUE)>>

\* C6 (as claimed): /stats, /broadcast or /logs of a sender in adminIds who is
\* neither banned nor rate-limited runs statsCommand, broadcastCommand or
\* logsCommand.
C6_AdminCommandsRun ==
  \A s \in Slots :
    \A name \in {"stats", "broadcast", "logs"} :
      (/\ pc[s] = "done"
       /\ IsCommand(upd[s], name)
       /\ upd[s].from \in adminIds
       /\ Has(hist[s].stages, "commandValidation")
       /\ AllReplied(s)) =>
        hist[s].handler = name \o "Command"

\* The allow-list of commandValidationMiddleware, as command names.
AllowList == {"start", "help", "settings", "about", "cancel"}

\* C7 (as claimed): a slash-command that reaches command validation is
\* forwarded to its handler when its name is in the allow-list, and otherwise
\* gets the "unknown command" reply with the help button and no handler.
C7_AllowList ==
  \A s \in Slots :
    (/\ pc[s] = "done"
     /\ upd[s].kind = MsgText
     /\ Len(upd[s].text) >= 2
     /\ upd[s].text[1] = Slash
     /\ Has(hist[s].stages, "commandValidation")
     /\ AllReplied(s)) =>
      IF upd[s].text[2] \in AllowList
      THEN hist[s].handler = upd[s].text[2] \o "Command"
      ELSE /\ hist[s].handler = "none"
           /\ hist[s].replies[1].text = UnknownCommand
           /\ hist[s].replies[1].keyboard = "help"

C9_JoinedAtStable ==
  /\ \A k \in DOMAIN storage : k \in DOMAIN joined /\ SessionAt(k).joinedAt = joined[k]
  /\ \A s \in Slots :
       \A o \in ctx[s].session :
         /\ getSessionKey(upd[s]) \in DOMAIN joined
         /\ heap[o].joinedAt = joined[getSessionKey(upd[s])]

\* C9 witness: a /start was handled for a sender whose session existed, at a
\* time later than the session's joinedAt.
C9_Witness ==
  \E s \in Slots :
    /\ pc[s] = "done"
    /\ hist[s].handler = "startCommand"
    /\ ~hist[s].created
    /\ Has(hist[s].stages, "sessionFinish")
    /\ now > SessionAt(getSessionKey(upd[s])).joinedAt

\* C10 (as claimed): the session made at the first access for a key is idle,
\* has the default language and a messageCount of zero, and its joinedAt and
\* lastActivity are the time of that access.
C10_SessionDefaults ==
  \A s \in Slots :
    (pc[s] = "commandValidation" /\ hist[s].created) =>
      \A o \in ctx[s].session :
        /\ heap[o].userState = "idle"
        /\ heap[o].languageCode = "en"
        /\ heap[o].messageCount = 0
        /\ heap[o].joinedAt = hist[s].attachedAt
        /\ heap[o].lastActivity = hist[s].attachedAt

\* C11 (as claimed): a /start without an inviter argument is answered with
\* the "enter inviter ID" prompt and posts nothing; a /start with an argument
\* posts {inviterId, userId} exactly once and sends exactly one reply, the
\* welcome message when the backend answers 201 and the backend's data
\* otherwise.
C11_StartFlow ==
  \A s \in Slots :
    (pc[s] = "done" /\ hist[s].handler = "startCommand" /\ AllReplied(s)) =>
      IF inviterIdOf(upd[s].text) = <<>>
      THEN /\ hist[s].replies = <<Reply(InviterPrompt, "none", TRUE)>>
           /\ hist[s].posted = <<>>
      ELSE /\ Len(hist[s].posted) = 1
           /\ hist[s].posted[1].inviterId = inviterIdOf(upd[s].text)
           /\ hist[s].posted[1].userId = upd[s].from
           /\ hist[s].replies =
                <<IF hist[s].posted[1].outcome = "created"
                  THEN Reply(Welcome, "miniApp", TRUE)
                  ELSE Reply(BackendData, "none", TRUE)>>

\* The verbs callbackQueryHandler knows in each namespace.
KnownVerbs ==
  [action |-> {"main", "help", "about", "settings", "back", "cancel", "retry", "support"},
   settings |-> {"language", "notifications"},
   lang |-> {"en", "ru", "es", "fr"},
   broadcast |-> {"confirm"}]

\* A payload with an unknown namespace, or an unknown verb in a known one.
UnknownPayload(data) ==
  data[1] \notin DOMAIN KnownVerbs \/ param0(data) \notin KnownVerbs[data[1]]

\* The callback query of slot s was answered and every edit went through.
Delivered(s) == Has(hist[s].events, "answered") /\ AllReplied(s)

\* C12 (as claimed): a callback whose namespace is unknown, or whose verb is
\* unknown within a known namespace, never reaches the error handler and is
\* answered with the "unknown action" text and the main-menu keyboard.
C12_UnknownCallback ==
  \A s \in Slots :
    (/\ pc[s] = "done"
     /\ upd[s].kind = CallbackQuery
     /\ UnknownPayload(upd[s].data)
     /\ Delivered(s)) =>
      /\ ~Has(hist[s].stages, "handleError")
      /\ hist[s].replies = <<Reply(UnknownAction, "mainMenu", TRUE)>>

\* How often x occurs in a sequence.
Count(seq, x) == Cardinality({i \in 1..Len(seq) : seq[i] = x})

\* The error replies sent for the update of slot s: those of handleError and
\* of callbackQueryHandler's catch.
ErrorReplies(s) ==
  {i \in 1..Len(hist[s].replies) :
     hist[s].replies[i].keyboard = "retry/support" \/ hist[s].replies[i].text = CallbackError}

\* C13 (as claimed): an update for which a handler or stage has thrown is
\* taken by handleError exactly once and gets exactly one error reply, that
\* of handleError; the update ends done.
C13_ErrorBoundary ==
  \A s \in Slots :
    (pc[s] = "done" /\ hist[s].failed # <<>>) =>
      /\ Count(hist[s].stages, "handleError") = 1
      /\ Cardinality(ErrorReplies(s)) = 1
      /\ hist[s].replies[Len(hist[s].replies)].keyboard = "retry/support"

\* C14: once handleError has run for an update whose error reply could not be
\* sent, the update is done, its context is dropped, nothing of the failure
\* is left in flight, and the slot takes the next update.
C14_ReplyFailureSwallowed ==
  \A s \in Slots :
    (/\ Has(hist[s].stages, "handleError")
     /\ ~hist[s].replies[Len(hist[s].replies)].ok) =>
      /\ pc[s] = "done"
      /\ ctx[s] = NoCtx
      /\ ENABLED (\E u \in Updates : Receive(s, u))

\* C14 witness: a handler's reply and then the error reply failed, and the
\* update is done.
C14_Witness ==
  \E s \in Slots :
    /\ pc[s] = "done"
    /\ Has(hist[s].stages, "handleError")
    /\ hist[s].handler # "none"
    /\ Len(hist[s].replies) = 2
    /\ ~hist[s].replies[1].ok
    /\ ~hist[s].replies[2].ok

\* C15 (as claimed): for an update that is done and in whose handling a
\* failure was thrown, the operators were notified exactly once when the kind
\* of that failure is configuration error or unknown error, and not at all
\* when it is another kind, whether or not the error reply was delivered.
C15_OperatorNotification ==
  \A s \in Slots :
    (pc[s] = "done" /\ hist[s].failed # <<>>) =>
      hist[s].notified =
        IF hist[s].failed[1] \in {"CONFIGURATION_ERROR", "UNKNOWN_ERROR"} THEN 1 ELSE 0

\* C16 (as claimed): a broadcast:confirm callback of a sender outside
\* adminIds never has the "Broadcast Sent" edit delivered nor the
\* broadcast_sent log entry written.
C16_BroadcastConfirmGated ==
  \A s \in Slots :
    (/\ upd[s].kind = CallbackQuery
     /\ upd[s].data[1] = "broadcast"
     /\ param0(upd[s].data) = "confirm"
     /\ upd[s].from \notin adminIds) =>
      /\ ~Has(hist[s].events, "broadcast_sent")
      /\ \A i \in 1..Len(hist[s].replies) :
           ~(hist[s].replies[i].text = BroadcastSent /\ hist[s].replies[i].ok)

\* The fixed texts of handleError.
Apologies ==
  {"Too many requests", "You are banned", "Network error", "Bot configuration error",
   "An error occurred"}

\* C18 (as claimed): the reply after a failure is one of the fixed texts with
\* the retry/support keyboard, and no reply that is delivered carries the
\* text of an error or of a rejected backend response.
C18_ErrorMasking ==
  \A s \in Slots :
    /\ \A i \in 1..Len(hist[s].replies) :
         ~(hist[s].replies[i].text = BackendData /\ hist[s].replies[i].ok)
    /\ (pc[s] = "done" /\ hist[s].failed # <<>>) =>
         /\ hist[s].replies[Len(hist[s].replies)].text \in Apologies
         /\ hist[s].replies[Len(hist[s].replies)].keyboard = "retry/support"

\* The place of a stage in the order the claim gives; a handler is any stage
\* behind command validation.
StageRank(stage) ==
  CASE stage = "errorMiddleware" -> 1
    [] stage = "userValidation" -> 2
    [] stage = "rateLimit" -> 3
    [] stage = "session" -> 4
    [] stage = "commandValidation" -> 5
    [] stage = "adminMiddleware" -> 6
    [] stage \in {"sessionFinish", "handleError"} -> 8
    [] OTHER -> 7

\* C20 (as claimed): the stages of an update run in the order error boundary,
\* user validation, rate limiter, session, command validation, handler, each
\* only after every earlier one passed the update on; and the session is
\* attached when a stage that reads or writes it runs: the touch of user
\* validation for a sender who is not banned, and every handler.
C20_PipelineOrder ==
  \A s \in Slots :
    /\ \A i \in 1..Len(hist[s].stages) :
         IF StageRank(hist[s].stages[i]) <= 5
         THEN StageRank(hist[s].stages[i]) = i
         ELSE /\ i > 1
              /\ StageRank(hist[s].stages[i - 1]) <= StageRank(hist[s].stages[i])
    /\ (pc[s] = "userValidation" /\ upd[s].from # NoUser /\ ~isBanned(upd[s].from)) =>
         ctx[s].session # {}
    /\ pc[s] \in {"dispatch", "startPost"} => ctx[s].session # {}

\* C17: whatever the interleaving of the updates in flight, the count stored
\* for a user is the number of that user's updates admitted since the window
\* end of the record was set, and it never exceeds max(1, maxRequests).
C17_NoLostLimiterUpdates ==
  \A k \in DOMAIN rateLimitStore :
    /\ k \in DOMAIN admits
    /\ rateLimitStore[k].count = admits[k]
    /\ rateLimitStore[k].count <= maxRequests

\* C17 witness: two updates of one user, admitted in one window, are in
\* flight behind the rate limiter at once, suspended at different awaits.
C17_Witness ==
  \E s, r \in Slots :
    /\ s # r
    /\ upd[s].from = upd[r].from
    /\ hist[s].limit = "allow"
    /\ hist[r].limit = "allow"
    /\ pc[s] = "sessionFinish"
    /\ pc[r] = "commandValidation"
    /\ rateLimitStore[rateLimitKey(upd[s])].count >= 2
    /\ now < rateLimitStore[rateLimitKey(upd[s])].resetTime

\* C19 (as claimed): once an update that changed the language of its session
\* has written the session back, the stored session of its chat has that
\* language, whatever other updates of the chat were in flight with it (the
\* updates tried choose one language only).
C19_NoLostSessionUpdates ==
  \A s \in Slots :
    (/\ pc[s] = "done"
     /\ Has(hist[s].events, "language_change")
     /\ Has(hist[s].stages, "sessionFinish")) =>
      SessionAt(getSessionKey(upd[s])).languageCode = param0(upd[s].data)

\* The handler the precedence slash-command, callback payload, plain text,
\* other media gives an update; "none" for an update of no class.
HandlerByClass(u) ==
  IF u.kind = MsgText /\ startsWithSlash(u.text)
  THEN (IF Len(u.text) >= 2 THEN u.text[2] \o "Command" ELSE "none")
  ELSE IF u.kind = CallbackQuery THEN "callbackQueryHandler"
  ELSE IF u.kind = MsgText THEN "message:text"
  ELSE IF u.kind \in MediaKinds THEN u.kind
  ELSE "none"

\* The replies of the plain-text handler.
PlainTextReplies == {"I received your message", "Input received"}

\* The step in which the update of slot s is dispatched.
DispatchStep(s) == pc[s] = "dispatch" /\ pc'[s] # "dispatch"

\* C21: the step that dispatches an update runs exactly one handler, the one
\* of the update's class by the precedence slash-command, callback payload,
\* plain text, other media; a text that begins with "/" gets no reply of the
\* plain-text handler; an update of no class runs no handler, gets no reply
\* and leaves the sessions and the rate-limit store as they are.
C21_ExactlyOneHandler ==
  [][\A s \in Slots :
       DispatchStep(s) =>
         LET u == upd[s]
             expected == HandlerByClass(u)
         IN /\ hist'[s].handler = expected
            /\ hist'[s].stages =
                 hist[s].stages \o (IF expected = "none" THEN <<>> ELSE <<expected>>)
            /\ (u.kind = MsgText /\ startsWithSlash(u.text)) =>
                 \A i \in 1..Len(hist'[s].replies) :
                   hist'[s].replies[i].text \notin PlainTextReplies
            /\ expected = "none" =>
                 /\ hist'[s].replies = hist[s].replies
                 /\ heap' = heap
                 /\ storage' = storage
                 /\ rateLimitStore' = rateLimitStore
                 /\ ctx'[s] = ctx[s]
    ]_vars

\* C21 witness: a slash-command was handled by its command handler alone and
\* its reply was delivered.
C21_Witness ==
  \E s \in Slots :
    /\ pc[s] = "done"
    /\ upd[s].kind = MsgText
    /\ startsWithSlash(upd[s].text)
    /\ hist[s].handler = "helpCommand"
    /\ Count(hist[s].stages, "helpCommand") = 1
    /\ ~Has(hist[s].stages, "message:text")
    /\ hist[s].replies = <<Reply("help", "mainMenu", TRUE)>>

\* handleError's keywords in the order the claim gives, and their kinds.
Keywords == <<"rate limit", "banned", "network", "configuration">>

KeywordKinds == <<"RATE_LIMIT_EXCEEDED", "USER_BANNED", "NETWORK_ERROR", "CONFIGURATION_ERROR">>

\* The keywords a message contains, by their place in the order.
Matches(err) ==
  {i \in 1..Len(Keywords) :
     err.hasMessage /\ \E j \in 1..Len(err.message) : err.message[j] = Keywords[i]}

\* The kind of the first keyword in that order the message contains.
KindByFirstMatch(err) ==
  IF Matches(err) = {} THEN "UNKNOWN_ERROR"
  ELSE KeywordKinds[CHOOSE i \in Matches(err) : \A j \in Matches(err) : i <= j]

FiveKinds ==
  {"RATE_LIMIT_EXCEEDED", "USER_BANNED", "NETWORK_ERROR", "CONFIGURATION_ERROR",
   "UNKNOWN_ERROR"}

\* C22: every error that reaches handleError gets one of the five kinds and
\* never INVALID_COMMAND: the kind of the first of 'rate limit', 'banned',
\* 'network', 'configuration' (in that order) its message contains, and
\* UNKNOWN_ERROR when it contains none of them or has no message.
C22_ErrorClassification ==
  \A s \in Slots :
    pc[s] = "handleError" =>
      LET err == ctx[s].error
          kind == hist[s].failed[Len(hist[s].failed)]
      IN /\ kind = errorType(err)
         /\ kind \in FiveKinds
         /\ kind # "INVALID_COMMAND"
         /\ kind = KindByFirstMatch(err)
         /\ ~err.hasMessage => kind = "UNKNOWN_ERROR"

\* C22 witness: an error whose message contains 'network' before 'banned'
\* has reached handleError and is of the kind USER_BANNED.
C22_Witness ==
  \E s \in Slots :
    /\ pc[s] = "handleError"
    /\ ctx[s].error = Err(<<"network", "banned">>)
    /\ hist[s].failed = <<"USER_BANNED">>

\* The step in which cancelCommand, or the cancel branch of
\* handleActionCallback, runs for the update of slot s.
CancelStep(s) ==
  \/ pc[s] = "dispatch" /\ IsCommand(upd[s], "cancel") /\ pc'[s] # "dispatch"
  \/ pc[s] = "callbackSwitch" /\ upd[s].data = <<"action", "cancel">> /\ pc'[s] # "callbackSwitch"

\* A session as it is but for its state.
InState(sess, st) == [sess EXCEPT !.userState = st]

\* C23: the step that handles /cancel or action:cancel leaves the session of
\* the update idle and every other field of it as it was; and whichever of
\* the three states the session had held, both cancel handlers would have
\* given that same session.
C23_CancelReturnsToIdle ==
  [][\A s \in Slots :
       CancelStep(s) =>
         \A o \in ctx[s].session :
           /\ o \in DOMAIN heap' => heap'[o] = InState(heap[o], "idle")
           /\ \A st \in UserStates :
                /\ Handle("cancelCommand", InState(heap[o], st), upd[s], now).sess
                     = InState(heap[o], "idle")
                /\ handleActionCallback(InState(heap[o], st), "cancel").sess
                     = InState(heap[o], "idle")
    ]_vars

\* C23 witness: a /cancel was handled and written back for a sender whose
\* session has a language and a notifications flag set by earlier updates.
C23_Witness ==
  \E s \in Slots :
    /\ pc[s] = "done"
    /\ hist[s].handler = "cancelCommand"
    /\ Has(hist[s].stages, "sessionFinish")
    /\ SessionAt(getSessionKey(upd[s])).userState = "idle"
    /\ SessionAt(getSessionKey(upd[s])).languageCode = "es"
    /\ SessionAt(getSessionKey(upd[s])).notificationsEnabled = "false"

\* C24 (as claimed): the process never exits while an update is still being
\* handled.
C24_ExitAfterInFlight ==
  pc[Main] = "exited" => \A s \in Slots : ~Running(s)

\* C25 (as claimed): a step taken for an update of one sender leaves the
\* rate-limit record of every other sender as it is (present or not), and
\* leaves the session that an other sender's finished update was handled
\* with, and that was written back for it, stored and unchanged.
C25_PerUserIndependence ==
  [][\A s, r \in Slots :
       (/\ s # r
        /\ StepOf(s)
        /\ pc[r] = "done" /\ pc'[r] = "done"
        /\ upd[r].from # NoUser
        /\ upd'[s].from # upd[r].from) =>
         LET B == upd[r].from
             key == getSessionKey(upd[r])
         IN /\ IF B \in DOMAIN rateLimitStore
               THEN B \in DOMAIN rateLimitStore' /\ rateLimitStore'[B] = rateLimitStore[B]
               ELSE B \notin DOMAIN rateLimitStore'
            /\ Has(hist[r].stages, "sessionFinish") =>
                 /\ key \in DOMAIN storage'
                 /\ heap'[storage'[key]] = heap[storage[key]]
    ]_vars

\* C26: an update admitted before the window end of its sender's record
\* raises the count of the record by exactly 1 and leaves its window end as
\* it is; the window end of a record changes only in a step of the rate
\* limiter for its user at or after the window end, which replaces the
\* record; no other step changes a record, and no step removes one.
C26_FixedWindow ==
  [][/\ \A k \in DOMAIN rateLimitStore : k \in DOMAIN rateLimitStore'
     /\ \A k \in DOMAIN rateLimitStore :
          rateLimitStore'[k] # rateLimitStore[k] =>
            \E s \in Slots : LimiterStep(s) /\ rateLimitKey(upd[s]) = k
     /\ \A s \in Slots :
          (LimiterStep(s) /\ rateLimitKey(upd[s]) \in DOMAIN rateLimitStore) =>
            LET k == rateLimitKey(upd[s])
                rec == rateLimitStore[k]
            IN /\ (hist'[s].limit = "allow" /\ now < rec.resetTime) =>
                    rateLimitStore'[k] = [count |-> rec.count + 1, resetTime |-> rec.resetTime]
               /\ rateLimitStore'[k].resetTime # rec.resetTime =>
                    /\ now >= rec.resetTime
                    /\ rateLimitStore'[k] = [count |-> 1, resetTime |-> now + WindowDuration]
    ]_vars

\* C26 witness: a second update of a sender was admitted inside the window,
\* later than the first, and the window end is still that of the first.
C26_Witness ==
  \E s \in Slots :
    /\ pc[s] = "session"
    /\ hist[s].limit = "allow"
    /\ rateLimitStore[rateLimitKey(upd[s])] = [count |-> 2, resetTime |-> 1 + WindowDuration]
    /\ now = 2

\* max(1, M), for the limit M the configuration gave: M when it is a number
\* above 1, and 1 otherwise.
AtLeastOne(M) == IF M # NaN /\ M > 1 THEN M ELSE 1

\* C27 (as claimed): every stored record has 1 <= count <= max(1, M), and at
\* most max(1, M) updates of a user were admitted since the window end of
\* the user's record last changed.
C27_RecordInvariant ==
  \A k \in DOMAIN rateLimitStore :
    /\ 1 <= rateLimitStore[k].count
    /\ rateLimitStore[k].count <= AtLeastOne(maxRequests)
    /\ admits[k] <= AtLeastOne(maxRequests)

\* C28: every session, stored or attached to an update, is idle, and no
\* update gets the "Input received" reply of the plain-text handler.
C28_AlwaysIdle ==
  /\ \A o \in DOMAIN heap : heap[o].userState = "idle"
  /\ \A s \in Slots :
       \A i \in 1..Len(hist[s].replies) : hist[s].replies[i].text # "Input received"

\* C28 witness: a plain text was handled by the text handler with the
\* default reply, and the session written back for it is idle.
C28_Witness ==
  \E s \in Slots :
    /\ pc[s] = "done"
    /\ hist[s].handler = "message:text"
    /\ hist[s].replies = <<Reply("I received your message", "help/settings", TRUE)>>
    /\ Has(hist[s].stages, "sessionFinish")
    /\ SessionAt(getSessionKey(upd[s])).userState = "idle"

\* C29: no step taken for an update without a sender, or of a banned sender,
\* changes the rate-limit store, and the store never holds a record under
\* the fallback key "unknown" nor under the id of a banned sender.
C29_LimiterOnlyValidated ==
  [][/\ \A s \in Slots :
          (StepOf(s) /\ (upd'[s].from = NoUser \/ upd'[s].from \in bannedUsers)) =>
            rateLimitStore' = rateLimitStore
     /\ "unknown" \notin DOMAIN rateLimitStore'
     /\ \A b \in bannedUsers : b \notin DOMAIN rateLimitStore'
    ]_vars

\* C29 witness: an update without a sender is done, stopped by user
\* validation, while the store holds the record of another sender.
C29_Witness ==
  \E s \in Slots :
    /\ pc[s] = "done"
    /\ upd[s].from = NoUser
    /\ hist[s].stages = <<"errorMiddleware", "userValidation">>
    /\ hist[s].replies = <<>>
    /\ DOMAIN rateLimitStore = {"alice"}

\* The step of slot s in which command validation runs.
ValidationStep(s) == pc[s] = "commandValidation" /\ pc'[s] # "commandValidation"

CtxSession(s) == CHOOSE o \in ctx[s].session : TRUE

\* The step of slot s runs the branch of a lang callback.
LanguageStep(s) ==
  /\ pc[s] = "callbackSwitch"
  /\ pc'[s] # pc[s]
  /\ upd[s].data[1] = "lang"

\* C31 (as claimed): a lang callback with one of the codes en, ru, es, fr sets
\* the language of the session to that code, a lang callback with any other
\* code leaves the language as it was, and no other step changes the language
\* of a stored session.
C31_LanguagePreference ==
  [][ /\ \A s \in Slots :
          LanguageStep(s) =>
            heap'[CtxSession(s)].languageCode =
              IF param0(upd[s].data) \in {"en", "ru", "es", "fr"}
              THEN param0(upd[s].data)
              ELSE heap[CtxSession(s)].languageCode
      /\ (\A r \in Slots : ~LanguageStep(r)) =>
           \A k \in DOMAIN storage :
             /\ k \in DOMAIN storage'
             /\ SessionAt(k)'.languageCode = SessionAt(k).languageCode]_vars

\* The positions of the fallback edits among the replies of slot s: the
\* generic error text with the main menu.
FallbackEdits(s) ==
  {i \in 1..Len(hist[s].replies) :
     /\ hist[s].replies[i].text = CallbackError
     /\ hist[s].replies[i].keyboard = "mainMenu"}

\* The edit of the branch taken for the callback of slot s has failed.
BranchEditFailed(s) ==
  /\ Has(hist[s].events, "answered")
  /\ Len(hist[s].replies) >= 1
  /\ ~hist[s].replies[1].ok

\* The error boundary has the update of slot s, or has had it.
AtBoundary(s) ==
  \/ pc[s] = "handleError"
  \/ Has(hist[s].stages, "handleError")
  \/ hist[s].notified > 0

\* C32: for an update handed to callbackQueryHandler, a failed edit of the
\* branch taken is caught by the handler, which attempts the edit with the
\* generic error text and the main menu exactly once; handleError and the
\* operator notification are reached only when answerCallbackQuery or that
\* fallback edit has failed, and then they are reached.
C32_CallbackFailuresLocal ==
  \A s \in Slots :
    hist[s].handler = "callbackQueryHandler" =>
      /\ BranchEditFailed(s) =>
           /\ pc[s] = "callbackCatch" \/ Count(hist[s].stages, "callbackCatch") = 1
           /\ Cardinality(FallbackEdits(s)) = Count(hist[s].stages, "callbackCatch")
      /\ ~BranchEditFailed(s) => FallbackEdits(s) = {}
      /\ AtBoundary(s) <=>
           \/ Has(hist[s].events, "answer failed")
           \/ \E i \in FallbackEdits(s) : ~hist[s].replies[i].ok

\* C32 witness: the edit of a branch failed, the handler's catch edited the
\* message to the generic error text, and the update is done without the
\* error boundary.
C32_Witness ==
  \E s \in Slots :
    /\ pc[s] = "done"
    /\ hist[s].handler = "callbackQueryHandler"
    /\ BranchEditFailed(s)
    /\ \E i \in FallbackEdits(s) : hist[s].replies[i].ok
    /\ ~Has(hist[s].stages, "handleError")
    /\ hist[s].notified = 0

\* The flag as the code reads it: notificationsEnabled ?? true.
Enabled(flag) == flag # "false"

\* The step of slot s runs the notifications branch of a settings callback.
ToggleStep(s) ==
  /\ pc[s] = "callbackSwitch"
  /\ pc'[s] # pc[s]
  /\ upd[s].data = <<"settings", "notifications">>

\* The session after one more press of the notifications button.
Pressed(sess) == handleSettingsCallback(sess, "notifications").sess

\* C33: a settings:notifications callback negates the notifications flag of
\* its session, reading an unset flag as enabled, and changes no other field;
\* a second press on the session it leaves gives back the value read before
\* the first; no other step of a callback or a command changes the flag of a
\* session, stored or in use, and a new session starts with the flag unset.
C33_NotificationToggle ==
  [][ /\ \A s \in Slots :
           ToggleStep(s) =>
             LET before == heap[CtxSession(s)]
                 after == heap'[CtxSession(s)]
             IN /\ Enabled(after.notificationsEnabled) = ~Enabled(before.notificationsEnabled)
                /\ before.notificationsEnabled = "unset" => after.notificationsEnabled = "false"
                /\ after = [before EXCEPT !.notificationsEnabled = after.notificationsEnabled]
                /\ Enabled(Pressed(after).notificationsEnabled) = Enabled(before.notificationsEnabled)
      /\ (\A r \in Slots : ~ToggleStep(r)) =>
           /\ \A o \in DOMAIN heap' :
                heap'[o].notificationsEnabled =
                  IF o \in DOMAIN heap THEN heap[o].notificationsEnabled ELSE "unset"
           /\ \A k \in DOMAIN storage :
                /\ k \in DOMAIN storage'
                /\ SessionAt(k)'.notificationsEnabled = SessionAt(k).notificationsEnabled ]_vars

\* C33 witness: two presses of the notifications button have been handled
\* for a chat, and its stored session has the flag enabled again.
C33_Witness ==
  \E s \in Slots :
    /\ pc[s] = "done"
    /\ upd[s].data = <<"settings", "notifications">>
    /\ getSessionKey(upd[s]) \in DOMAIN storage
    /\ SessionAt(getSessionKey(upd[s])).notificationsEnabled = "true"


====
